---- MODULE Spec2Model ----
(***************************************************************************)
(* A model of crio (src/src/lib.rs): the container format written by       *)
(* vec_to_binary, the load pass of binary_to_vec / process_document /      *)
(* validate_collection, the Client that owns the file handle, and the      *)
(* DataPoisonError wrapper.                                                *)
(*                                                                         *)
(* Bytes are integers 0..255 and a file is a sequence of bytes.  A u32 is  *)
(* kept as its four little-endian bytes, so that every value a damaged     *)
(* file can hold (up to 2^32-1) is representable.  The stored type T is    *)
(* instantiated as Option<u8>, whose bincode encoding is one tag byte      *)
(* followed, for Some, by the value byte.                                  *)
(***************************************************************************)
EXTENDS Integers, Sequences, FiniteSets, TLC

VARIABLES
    exists,    \* the file at the path exists on disk
    file,      \* its contents, a sequence of bytes
    client,    \* the Client: [open, append, pos], pos is the handle's cursor
    result,    \* what load() returned, once called since the file last changed
    written,   \* history: the item sequences of the open client's writes
    fresh,     \* history: the file was new or empty when the client opened it
    nwrites,   \* history: write / write_many calls so far
    stage,     \* position in the encode / damage / load pipeline
    input,     \* the item sequence given to vec_to_binary in that pipeline
    flipped,   \* history: the damaged bytes, as [pos, mask]
    ncut,      \* history: how many times the file was cut short
    perr,      \* the DataPoisonError: [alive, collection, checksum]
    orig,      \* history: the collection the DataPoisonError was built from
    got,       \* the last DataPoisonError accessor called and what it returned
    touched    \* history: the caller wrote through the get_mut reference

vars == <<exists, file, client, result, written, fresh, nwrites, stage, input,
          flipped, ncut, perr, orig, got, touched>>

clientVars == <<exists, client, written, fresh, nwrites>>
codecVars == <<stage, input, flipped, ncut>>
poisonVars == <<perr, orig, got, touched>>

(***************************************************************************)
(* Bounds of the model.                                                    *)
(***************************************************************************)
MaxLen == 2        \* longest item sequence passed to one call
MaxTamper == 2     \* damage steps applied to one file image
MaxWrites == 3     \* write / write_many calls in one run

(***************************************************************************)
(* Program constants.                                                      *)
(***************************************************************************)
FILE_HEADER == 67297350
FILE_VERSION == 2

Byte == 0 .. 255

Min(a, b) == IF a < b THEN a ELSE b

(***************************************************************************)
(* byteorder: u32 little-endian.                                           *)
(***************************************************************************)
U32LE(n) ==
    << n % 256, (n \div 256) % 256, (n \div 65536) % 256, (n \div 16777216) % 256 >>

ZeroU32 == << 0, 0, 0, 0 >>

\* The number of bytes a reader with `avail` bytes left yields for
\* take(len).read_to_end(): all of len when they are there, else what is left.
TakeCount(len, avail) ==
    IF len[3] # 0 \/ len[4] # 0 THEN avail ELSE Min(len[1] + 256 * len[2], avail)

(***************************************************************************)
(* crc: CRC_32_ISO_HDLC (reflected, polynomial EDB88320, init and xorout   *)
(* FFFFFFFF), table driven, on little-endian byte quadruples.              *)
(***************************************************************************)
RECURSIVE XorBits(_, _, _)
XorBits(a, b, n) ==
    IF n = 0 THEN 0
    ELSE ((a + b) % 2) + 2 * XorBits(a \div 2, b \div 2, n - 1)

Xor8 == [a \in Byte |-> [b \in Byte |-> XorBits(a, b, 8)]]

Xor32(u, v) == [i \in 1 .. 4 |-> Xor8[u[i]][v[i]]]

Shr1(u) ==
    [i \in 1 .. 4 |-> (u[i] \div 2) + 128 * (IF i < 4 THEN u[i + 1] % 2 ELSE 0)]

CrcPoly == << 32, 131, 184, 237 >>

OnesU32 == << 255, 255, 255, 255 >>

RECURSIVE CrcTableStep(_, _)
CrcTableStep(u, n) ==
    IF n = 0 THEN u
    ELSE CrcTableStep(IF u[1] % 2 = 1 THEN Xor32(Shr1(u), CrcPoly) ELSE Shr1(u),
                      n - 1)

CrcTable == [i \in Byte |-> CrcTableStep(<< i, 0, 0, 0 >>, 8)]

RECURSIVE CrcUpdate(_, _)
CrcUpdate(crc, data) ==
    IF data = << >> THEN crc
    ELSE CrcUpdate(Xor32(CrcTable[Xor8[crc[1]][Head(data)]],
                         << crc[2], crc[3], crc[4], 0 >>),
                   Tail(data))

CrcChecksum(data) == Xor32(CrcUpdate(OnesU32, data), OnesU32)

(***************************************************************************)
(* bincode for T = Option<u8>.                                             *)
(***************************************************************************)
NoneItem == [tag |-> 0, val |-> 0]
SomeItem(v) == [tag |-> 1, val |-> v]

Serialize(item) ==
    IF item.tag = 0 THEN << 0 >> ELSE << 1, item.val >>

\* Trailing bytes are accepted; a missing byte or an unknown tag is an error.
Deserialize(bytes) ==
    IF bytes = << >> THEN [ok |-> FALSE, item |-> NoneItem]
    ELSE IF bytes[1] = 0 THEN [ok |-> TRUE, item |-> NoneItem]
    ELSE IF bytes[1] = 1 /\ Len(bytes) >= 2
         THEN [ok |-> TRUE, item |-> SomeItem(bytes[2])]
    ELSE [ok |-> FALSE, item |-> NoneItem]

(***************************************************************************)
(* Results of load().                                                      *)
(***************************************************************************)
Res(kind, items, saved, expected, version) ==
    [kind |-> kind, items |-> items, saved |-> saved, expected |-> expected,
     version |-> version]

NotLoaded == Res("NotLoaded", << >>, ZeroU32, ZeroU32, ZeroU32)
NoData == Res("NoData", << >>, ZeroU32, ZeroU32, ZeroU32)
OkVec(items) == Res("Ok", items, ZeroU32, ZeroU32, ZeroU32)
ErrFileHeader == Res("FileHeader", << >>, ZeroU32, ZeroU32, ZeroU32)
ErrFileVersion(v) == Res("FileVersion", << >>, ZeroU32, ZeroU32, v)
ErrSerde == Res("SerdeError", << >>, ZeroU32, ZeroU32, ZeroU32)

\* DatabaseError::MismatchedChecksum(DataPoisonError::new(collection, checksum))
MismatchedChecksum(collection, checksum) ==
    Res("Poisoned", collection, checksum.saved_checksum,
        checksum.expected_checksum, ZeroU32)

Skip(s, n) == SubSeq(s, n + 1, Len(s))

(***************************************************************************)
(* vec_to_binary                                                           *)
(***************************************************************************)
\* Variant: the length field is written before the checksum.
EncodeDocument_len_first(document) ==
    LET raw_data == Serialize(document)
    IN  U32LE(Len(raw_data)) \o CrcChecksum(raw_data) \o raw_data

EncodeDocument(document) ==
    LET raw_data == Serialize(document)
    IN  CrcChecksum(raw_data) \o U32LE(Len(raw_data)) \o raw_data

RECURSIVE EncodeDocuments(_)
EncodeDocuments(data) ==
    IF data = << >> THEN << >>
    ELSE EncodeDocument(Head(data)) \o EncodeDocuments(Tail(data))

vec_to_binary(data) ==
    U32LE(FILE_HEADER) \o U32LE(FILE_VERSION) \o EncodeDocuments(data)

(***************************************************************************)
(* validate_collection                                                     *)
(***************************************************************************)
\* Variant: the version is examined before the magic.
validate_collection_version_first(f) ==
    IF Len(f) < 8 THEN [err |-> ErrFileVersion(U32LE(1)), rest |-> << >>]
    ELSE IF SubSeq(f, 5, 8) # U32LE(FILE_VERSION)
         THEN [err |-> ErrFileVersion(SubSeq(f, 5, 8)), rest |-> << >>]
    ELSE IF SubSeq(f, 1, 4) # U32LE(FILE_HEADER)
         THEN [err |-> ErrFileHeader, rest |-> << >>]
    ELSE [err |-> NotLoaded, rest |-> Skip(f, 8)]

validate_collection(f) ==
    IF Len(f) < 4 THEN [err |-> ErrFileHeader, rest |-> << >>]
    ELSE IF SubSeq(f, 1, 4) # U32LE(FILE_HEADER)
         THEN [err |-> ErrFileHeader, rest |-> << >>]
    ELSE IF Len(f) < 8 THEN [err |-> ErrFileVersion(U32LE(1)), rest |-> << >>]
    ELSE IF SubSeq(f, 5, 8) # U32LE(FILE_VERSION)
         THEN [err |-> ErrFileVersion(SubSeq(f, 5, 8)), rest |-> << >>]
    ELSE [err |-> NotLoaded, rest |-> Skip(f, 8)]

(***************************************************************************)
(* process_document                                                        *)
(***************************************************************************)
Checksum(saved_checksum, expected_checksum) ==
    [saved_checksum |-> saved_checksum, expected_checksum |-> expected_checksum]

NoChecksum == [some |-> FALSE, checksum |-> Checksum(ZeroU32, ZeroU32)]

\* Variant: a mismatch is reported without the payload that was read.
process_document_drops_payload(f) ==
    IF Len(f) < 8
    THEN [kind |-> "UnexpectedEof", data |-> << >>,
          checksum |-> Checksum(ZeroU32, ZeroU32), rest |-> << >>]
    ELSE LET saved_checksum == SubSeq(f, 1, 4)
             data_len == SubSeq(f, 5, 8)
             n == TakeCount(data_len, Len(f) - 8)
             data == SubSeq(f, 9, 8 + n)
             expected_checksum == CrcChecksum(data)
         IN  [kind |-> IF expected_checksum # saved_checksum
                       THEN "MismatchedChecksum" ELSE "Ok",
              data |-> IF expected_checksum # saved_checksum THEN << >> ELSE data,
              checksum |-> Checksum(saved_checksum, expected_checksum),
              rest |-> Skip(f, 8 + n)]

process_document(f) ==
    IF Len(f) < 8
    THEN [kind |-> "UnexpectedEof", data |-> << >>,
          checksum |-> Checksum(ZeroU32, ZeroU32), rest |-> << >>]
    ELSE LET saved_checksum == SubSeq(f, 1, 4)
             data_len == SubSeq(f, 5, 8)
             n == TakeCount(data_len, Len(f) - 8)
             data == SubSeq(f, 9, 8 + n)
             expected_checksum == CrcChecksum(data)
         IN  [kind |-> IF expected_checksum # saved_checksum
                       THEN "MismatchedChecksum" ELSE "Ok",
              data |-> data,
              checksum |-> Checksum(saved_checksum, expected_checksum),
              rest |-> Skip(f, 8 + n)]

(***************************************************************************)
(* binary_to_vec                                                           *)
(***************************************************************************)
\* Variant: the first mismatch is kept instead of the last one.
RECURSIVE ScanDocuments_keep_first(_, _, _)
ScanDocuments_keep_first(raw_data, collected, is_corrupted) ==
    LET raw_doc == process_document(raw_data)
    IN  IF raw_doc.kind = "UnexpectedEof"
        THEN IF is_corrupted.some
             THEN MismatchedChecksum(collected, is_corrupted.checksum)
             ELSE OkVec(collected)
        ELSE LET corrupted ==
                     IF raw_doc.kind = "MismatchedChecksum" /\ ~is_corrupted.some
                     THEN [some |-> TRUE, checksum |-> raw_doc.checksum]
                     ELSE is_corrupted
                 data == Deserialize(raw_doc.data)
             IN  IF ~data.ok THEN ErrSerde
                 ELSE ScanDocuments_keep_first(raw_doc.rest,
                                               Append(collected, data.item),
                                               corrupted)

RECURSIVE ScanDocuments(_, _, _)
ScanDocuments(raw_data, collected, is_corrupted) ==
    LET raw_doc == process_document(raw_data)
    IN  IF raw_doc.kind = "UnexpectedEof"
        THEN IF is_corrupted.some
             THEN MismatchedChecksum(collected, is_corrupted.checksum)
             ELSE OkVec(collected)
        ELSE LET corrupted ==
                     IF raw_doc.kind = "MismatchedChecksum"
                     THEN [some |-> TRUE, checksum |-> raw_doc.checksum]
                     ELSE is_corrupted
                 data == Deserialize(raw_doc.data)
             IN  IF ~data.ok THEN ErrSerde
                 ELSE ScanDocuments(raw_doc.rest, Append(collected, data.item),
                                    corrupted)

binary_to_vec(raw_data) ==
    LET header == validate_collection(raw_data)
    IN  IF header.err # NotLoaded THEN header.err
        ELSE ScanDocuments(header.rest, << >>, NoChecksum)

(***************************************************************************)
(* Client::load, on the bytes read from the file.                          *)
(***************************************************************************)
\* Variant: the empty buffer is handed to the decoder as well.
load_no_empty_check(buf) == binary_to_vec(buf)

load(buf) ==
    IF buf = << >> THEN NoData ELSE binary_to_vec(buf)

(***************************************************************************)
(* Values the model draws its inputs from.                                 *)
(***************************************************************************)
Items == {NoneItem, SomeItem(1)}

ItemSeqs(n) == UNION {[1 .. k -> Items] : k \in 0 .. n}

FlipMasks == {1, 128}

SampleChecksums == {U32LE(23), U32LE(45)}

ClosedClient == [open |-> FALSE, append |-> FALSE, pos |-> 0]

NoPoison ==
    [alive |-> FALSE, collection |-> << >>, checksum |-> Checksum(ZeroU32, ZeroU32)]

NothingGot == [by |-> "none", value |-> << >>]

ClientIdle ==
    /\ exists = FALSE
    /\ client = ClosedClient
    /\ written = << >>
    /\ fresh = FALSE
    /\ nwrites = 0

CodecIdle ==
    /\ stage = "off"
    /\ input = << >>
    /\ flipped = {}
    /\ ncut = 0

PoisonIdle ==
    /\ perr = NoPoison
    /\ orig = << >>
    /\ got = NothingGot
    /\ touched = FALSE

(***************************************************************************)
(* The encode / damage / load pipeline: an image produced by               *)
(* vec_to_binary is damaged where it is stored and then loaded.            *)
(***************************************************************************)
CodecInit ==
    /\ stage = "input"
    /\ input \in ItemSeqs(MaxLen)
    /\ file = << >>
    /\ result = NotLoaded
    /\ flipped = {}
    /\ ncut = 0
    /\ exists = TRUE
    /\ client = ClosedClient
    /\ written = << >>
    /\ fresh = FALSE
    /\ nwrites = 0
    /\ PoisonIdle

Encode ==
    /\ stage = "input"
    /\ file' = vec_to_binary(input)
    /\ stage' = "encoded"
    /\ UNCHANGED <<result, input, flipped, ncut, clientVars, poisonVars>>

Tampers == Cardinality(flipped) + ncut

FlipByte ==
    /\ stage = "encoded"
    /\ Tampers < MaxTamper
    /\ \E p \in 1 .. Len(file), m \in FlipMasks :
          /\ \A t \in flipped : t.pos # p
          /\ file' = [file EXCEPT ![p] = Xor8[@][m]]
          /\ flipped' = flipped \cup {[pos |-> p, mask |-> m]}
    /\ UNCHANGED <<result, stage, input, ncut, clientVars, poisonVars>>

Truncate ==
    /\ stage = "encoded"
    /\ Tampers < MaxTamper
    /\ \E n \in 0 .. (Len(file) - 1) : file' = SubSeq(file, 1, n)
    /\ ncut' = ncut + 1
    /\ UNCHANGED <<result, stage, input, flipped, clientVars, poisonVars>>

LoadImage ==
    /\ stage = "encoded"
    /\ result' = load(file)
    /\ stage' = "loaded"
    /\ UNCHANGED <<file, input, flipped, ncut, clientVars, poisonVars>>

CodecNext == Encode \/ FlipByte \/ Truncate \/ LoadImage

CodecSpec == CodecInit /\ [][CodecNext]_vars

(***************************************************************************)
(* Derived notions the properties of the pipeline are stated with.         *)
(***************************************************************************)
Untouched == flipped = {} /\ ncut = 0

\* Number of bytes of the intact image before record k of `input` (k from 1).
RecordStart(k) == Len(vec_to_binary(SubSeq(input, 1, k - 1)))

\* The records as they are framed in a byte stream that follows a header.
RECURSIVE Frames(_)
Frames(f) ==
    LET d == process_document(f)
    IN  IF d.kind = "UnexpectedEof" THEN << >> ELSE << d >> \o Frames(d.rest)

MismatchingFrames(fr) ==
    {i \in 1 .. Len(fr) : fr[i].checksum.saved_checksum # CrcChecksum(fr[i].data)}

SetMax(S) == CHOOSE x \in S : \A y \in S : y <= x

ValidHeader(f) ==
    /\ Len(f) >= 8
    /\ SubSeq(f, 1, 8) = U32LE(FILE_HEADER) \o U32LE(FILE_VERSION)

\* C1: decoding the image that vec_to_binary produced for a sequence gives a
\* clean result equal to that sequence, same length and same order.
C1_RoundTrip ==
    (stage = "loaded" /\ Untouched) => result = OkVec(input)

C1_Witness ==
    /\ stage = "loaded"
    /\ Untouched
    /\ Len(input) = 2
    /\ input[1] = input[2]
    /\ result = OkVec(input)

\* C4: a well-formed container cut strictly inside record k loads as a clean
\* result holding exactly records 1..k-1.
C4_TruncationTolerance ==
    (stage = "loaded" /\ flipped = {} /\ ncut = 1) =>
        \A k \in 1 .. Len(input) :
            (RecordStart(k) < Len(file) /\ Len(file) < RecordStart(k + 1)) =>
                result = OkVec(SubSeq(input, 1, k - 1))

\* C5: one changed payload byte in record i, which the decoder still decodes,
\* gives a poisoned result with all n items in order (record i as decoded from
\* the changed payload) and the stored / recomputed checksums of record i.
C5_CorruptionIsolation ==
    (stage = "loaded" /\ ncut = 0 /\ Cardinality(flipped) = 1) =>
        \A t \in flipped, i \in 1 .. Len(input) :
            LET payload == Serialize(input[i])
                off == t.pos - RecordStart(i) - 8
                bad == [payload EXCEPT ![off] = Xor8[@][t.mask]]
            IN  (/\ off \in 1 .. Len(payload)
                 /\ CrcChecksum(bad) # CrcChecksum(payload)
                 /\ Deserialize(bad).ok) =>
                    result = MismatchedChecksum(
                                 [input EXCEPT ![i] = Deserialize(bad).item],
                                 Checksum(CrcChecksum(payload), CrcChecksum(bad)))

C5_Witness ==
    /\ stage = "loaded"
    /\ ncut = 0
    /\ Len(input) = 2
    /\ \E t \in flipped :
          /\ flipped = {t}
          /\ t.pos = RecordStart(1) + 8 + 2
    /\ result.kind = "Poisoned"
    /\ Len(result.items) = 2
    /\ result.items[1] # input[1]
    /\ result.items[2] = input[2]

\* C6: a non-empty input whose magic is missing or wrong is rejected with
\* FileHeader whatever follows; a correct magic followed by another version
\* is rejected with FileVersion(v), v the value stored at offset 4.
C6_HeaderRejection ==
    (stage = "loaded" /\ file # << >>) =>
        /\ (Len(file) < 4 \/ SubSeq(file, 1, 4) # U32LE(FILE_HEADER)) =>
               result = ErrFileHeader
        /\ (/\ Len(file) >= 8
            /\ SubSeq(file, 1, 4) = U32LE(FILE_HEADER)
            /\ SubSeq(file, 5, 8) # U32LE(FILE_VERSION)) =>
               result = ErrFileVersion(SubSeq(file, 5, 8))

C6_Witness ==
    /\ stage = "loaded"
    /\ ncut = 0
    /\ Len(input) >= 1
    /\ SubSeq(file, 1, 4) # U32LE(FILE_HEADER)
    /\ SubSeq(file, 5, 8) # U32LE(FILE_VERSION)
    /\ result = ErrFileHeader

\* C7: with a valid header and no decode error, load is poisoned exactly when
\* some record's stored checksum differs from the one recomputed over its
\* payload; the result holds one item per scanned record in stream order, and
\* a poisoned result carries the checksum pair of the last mismatching record.
C7_Poisoning ==
    LET fr == Frames(Skip(file, 8))
        bad == MismatchingFrames(fr)
    IN  (/\ stage = "loaded"
         /\ ValidHeader(file)
         /\ \A i \in 1 .. Len(fr) : Deserialize(fr[i].data).ok) =>
            /\ result.kind = (IF bad = {} THEN "Ok" ELSE "Poisoned")
            /\ result.items = [i \in 1 .. Len(fr) |-> Deserialize(fr[i].data).item]
            /\ bad # {} =>
                   /\ result.saved = fr[SetMax(bad)].checksum.saved_checksum
                   /\ result.expected = CrcChecksum(fr[SetMax(bad)].data)

C7_Witness ==
    LET fr == Frames(Skip(file, 8))
        bad == MismatchingFrames(fr)
    IN  /\ stage = "loaded"
        /\ ValidHeader(file)
        /\ Len(fr) = 2
        /\ bad = {1, 2}
        /\ fr[1].checksum # fr[2].checksum
        /\ result = MismatchedChecksum(
                        << Deserialize(fr[1].data).item, Deserialize(fr[2].data).item >>,
                        fr[2].checksum)

\* C8: load reports 'no data' for a file of zero bytes and for no other file.
C8_EmptyInput ==
    stage = "loaded" => (result = NoData <=> file = << >>)

C8_Witness ==
    /\ stage = "loaded"
    /\ file = << >>
    /\ ncut >= 1
    /\ result = NoData

(***************************************************************************)
(* The Client and the file at its path.  One handle is live at a time.     *)
(***************************************************************************)
\* write_all at byte offset pos of a file: overwrites what is there and
\* extends the file past its end.
WriteAt(f, pos, buf) ==
    SubSeq(f, 1, pos) \o buf \o Skip(f, pos + Len(buf))

\* Client::new: both modes create a missing file; truncate(true) empties an
\* existing one, append(true) keeps it.
New ==
    /\ ~client.open
    /\ \E append \in BOOLEAN :
          /\ file' = IF append /\ exists THEN file ELSE << >>
          /\ client' = [open |-> TRUE, append |-> append, pos |-> 0]
    /\ exists' = TRUE
    /\ fresh' = (file' = << >>)
    /\ written' = << >>
    /\ result' = NotLoaded
    /\ UNCHANGED <<nwrites, codecVars, poisonVars>>

\* The file.write_all(&buf) of write and write_many: at the end of the file
\* for a handle opened with append(true), else at the cursor.
WriteAll(data) ==
    LET buf == vec_to_binary(data)
        at == IF client.append THEN Len(file) ELSE client.pos
    IN  /\ file' = WriteAt(file, at, buf)
        /\ client' = [client EXCEPT !.pos = at + Len(buf)]
        /\ written' = Append(written, data)
        /\ nwrites' = nwrites + 1
        /\ result' = NotLoaded
        /\ UNCHANGED <<exists, fresh, codecVars, poisonVars>>

WriteMany ==
    /\ client.open
    /\ nwrites < MaxWrites
    /\ \E data \in ItemSeqs(MaxLen) : WriteAll(data)

Write ==
    /\ client.open
    /\ nwrites < MaxWrites
    /\ \E data \in Items : WriteAll(<< data >>)

\* Client::load: seek to the start, read to the end, decode.
Load ==
    /\ client.open
    /\ result' = load(file)
    /\ client' = [client EXCEPT !.pos = Len(file)]
    /\ UNCHANGED <<exists, file, written, fresh, nwrites, codecVars, poisonVars>>

\* The Client goes out of scope; the file stays.
DropClient ==
    /\ client.open
    /\ client' = ClosedClient
    /\ written' = << >>
    /\ fresh' = FALSE
    /\ result' = NotLoaded
    /\ UNCHANGED <<exists, file, nwrites, codecVars, poisonVars>>

Init ==
    /\ file = << >>
    /\ result = NotLoaded
    /\ ClientIdle
    /\ CodecIdle
    /\ PoisonIdle

Next == New \/ WriteMany \/ Write \/ Load \/ DropClient

Spec == Init /\ [][Next]_vars

RECURSIVE Concat(_)
Concat(ss) == IF ss = << >> THEN << >> ELSE Head(ss) \o Concat(Tail(ss))

\* C2: with append = false every write / write_many replaces what the file
\* held: a load after such calls returns exactly the items of the latest call.
C2_Overwrite ==
    (client.open /\ ~client.append /\ written # << >> /\ result # NotLoaded) =>
        result = OkVec(written[Len(written)])

\* C3: with append = true on a new or empty file, after writes A1 .. Ak load
\* returns the clean concatenation A1 \o .. \o Ak, and the file is one header
\* followed by their records.
C3_Append ==
    (client.open /\ client.append /\ fresh /\ written # << >> /\ result # NotLoaded) =>
        /\ result = OkVec(Concat(written))
        /\ file = vec_to_binary(Concat(written))

\* C10: creating a Client on a path whose file exists leaves the contents of
\* the file as they are, for both values of append.
C10_OpenKeepsContents ==
    [][(exists /\ ~client.open /\ client'.open) => file' = file]_vars

(***************************************************************************)
(* DataPoisonError                                                         *)
(***************************************************************************)
DataPoisonError_new(collection, checksum) ==
    [alive |-> TRUE, collection |-> collection, checksum |-> checksum]

\* Variant: the recovered objects are dropped and an empty vector returned.
into_inner_discards(self) == << >>

into_inner(self) == self.collection

get_ref(self) == self.collection

get_mut(self) == self.collection

PoisonInit ==
    /\ \E collection \in ItemSeqs(MaxLen), s \in SampleChecksums, e \in SampleChecksums :
          /\ perr = DataPoisonError_new(collection, Checksum(s, e))
          /\ orig = collection
    /\ got = NothingGot
    /\ touched = FALSE
    /\ file = << >>
    /\ result = NotLoaded
    /\ ClientIdle
    /\ CodecIdle

GetRef ==
    /\ perr.alive
    /\ got' = [by |-> "get_ref", value |-> get_ref(perr)]
    /\ UNCHANGED <<perr, orig, touched, file, result, clientVars, codecVars>>

GetMut ==
    /\ perr.alive
    /\ got' = [by |-> "get_mut", value |-> get_mut(perr)]
    /\ UNCHANGED <<perr, orig, touched, file, result, clientVars, codecVars>>

\* The caller assigns an element through the slice that get_mut returned.
AssignThroughMut ==
    /\ perr.alive
    /\ got.by = "get_mut"
    /\ \E i \in 1 .. Len(perr.collection), x \in Items :
          /\ perr.collection[i] # x
          /\ perr' = [perr EXCEPT !.collection[i] = x]
    /\ touched' = TRUE
    /\ UNCHANGED <<got, orig, file, result, clientVars, codecVars>>

\* into_inner takes the error by value: nothing can be called on it afterwards.
IntoInner ==
    /\ perr.alive
    /\ got' = [by |-> "into_inner", value |-> into_inner(perr)]
    /\ perr' = [perr EXCEPT !.alive = FALSE]
    /\ UNCHANGED <<orig, touched, file, result, clientVars, codecVars>>

PoisonNext == GetRef \/ GetMut \/ AssignThroughMut \/ IntoInner

PoisonSpec == PoisonInit /\ [][PoisonNext]_vars

\* C9: get_ref, get_mut and into_inner each yield the collection the error
\* was built from, unless the caller changed it through get_mut, and then
\* the collection as changed; get_ref and get_mut leave the held collection
\* and the checksums as they are.
C9_PoisonKeepsData ==
    [][got' # got =>
          /\ got'.value = perr.collection
          /\ ~touched => got'.value = orig
          /\ got'.by \in {"get_ref", "get_mut"} => perr' = perr]_vars

C9_Witness ==
    /\ ~perr.alive
    /\ ~touched
    /\ got.by = "into_inner"
    /\ Len(orig) = 2
    /\ got.value = orig

====
